---- MODULE Spec2Model ----
(***************************************************************************)
(* PDFOutlineExtractor (src/process_pdfs.py): extract_outline and the      *)
(* helpers it calls, as a state machine over one input document.           *)
(*                                                                         *)
(* Texts are strings.  Font sizes are integers in hundredths of a point    *)
(* (12.04pt is 1204), so that round(size, 1) is a real rounding; scores    *)
(* are exact rationals kept as integers over the common denominator        *)
(* ScoreDen(med2), where med2 is twice the median font size.               *)
(***************************************************************************)
EXTENDS Naturals, Integers, Sequences, FiniteSets, TLC

(***************************************************************************)
(* Character classes of Python's re / str.                                 *)
(***************************************************************************)
UpperSeq == "ABCDEFGHIJKLMNOPQRSTUVWXYZ"

LowerSeq == "abcdefghijklmnopqrstuvwxyz"

Chr(s, i) == SubSeq(s, i, i)

UpperChars == {Chr(UpperSeq, i) : i \in 1..Len(UpperSeq)}

LowerChars == {Chr(LowerSeq, i) : i \in 1..Len(LowerSeq)}

DigitChars == {"0", "1", "2", "3", "4", "5", "6", "7", "8", "9"}

\* \s
SpaceChars == {" ", "\t", "\n", "\r"}

\* \w
WordChars == UpperChars \cup LowerChars \cup DigitChars \cup {"_"}

\* the punctuation that [^\w\s\-.,():\'"!?] keeps
KeptPunctuation == {"-", ".", ",", "(", ")", ":", "'", "\"", "!", "?"}

\* the characters re.sub(r'[^\w\s\-.,():\'"!?]', '', text) keeps
KeptChars == WordChars \cup SpaceChars \cup KeptPunctuation

LowerOf ==
    [c \in UpperChars |->
        Chr(LowerSeq, CHOOSE i \in 1..Len(UpperSeq) : Chr(UpperSeq, i) = c)]

ToLower(c) == IF c \in UpperChars THEN LowerOf[c] ELSE c

\* s starts with the lower-case word w, whatever the case of s (re.IGNORECASE)
StartsWithIgnoreCase(s, w) ==
    /\ Len(s) >= Len(w)
    /\ \A i \in 1..Len(w) : ToLower(Chr(s, i)) = Chr(w, i)

StartsWith(s, p) == Len(s) >= Len(p) /\ SubSeq(s, 1, Len(p)) = p

(***************************************************************************)
(* str.strip()                                                             *)
(***************************************************************************)
RECURSIVE LStrip(_)
LStrip(s) ==
    IF s = "" THEN ""
    ELSE IF Head(s) \in SpaceChars THEN LStrip(Tail(s)) ELSE s

RECURSIVE RStrip(_)
RStrip(s) ==
    IF s = "" THEN ""
    ELSE IF Chr(s, Len(s)) \in SpaceChars
         THEN RStrip(SubSeq(s, 1, Len(s) - 1))
         ELSE s

Strip(s) == RStrip(LStrip(s))

(***************************************************************************)
(* _clean_text                                                             *)
(***************************************************************************)
\* re.sub(r'\s+', ' ', text)
RECURSIVE CollapseWhitespace(_)
CollapseWhitespace(s) ==
    IF s = "" THEN ""
    ELSE IF Head(s) \in SpaceChars
         THEN " " \o CollapseWhitespace(LStrip(s))
         ELSE Head(s) \o CollapseWhitespace(Tail(s))

\* re.sub(r'[^\w\s\-.,():\'"!?]', '', text)
RECURSIVE RemoveArtifacts(_)
RemoveArtifacts(s) ==
    IF s = "" THEN ""
    ELSE IF Head(s) \in KeptChars
         THEN Head(s) \o RemoveArtifacts(Tail(s))
         ELSE RemoveArtifacts(Tail(s))

CleanText(text) == RemoveArtifacts(Strip(CollapseWhitespace(text)))

(***************************************************************************)
(* heading_patterns, matched with pattern.match (anchored at the start).   *)
(* A position is an index into the text; 0 is "no match".                  *)
(***************************************************************************)
RECURSIVE SkipClass(_, _, _)
SkipClass(s, i, C) ==
    IF i <= Len(s) /\ Chr(s, i) \in C THEN SkipClass(s, i + 1, C) ELSE i

\* C+ from position i: the position after the run, 0 when there is none
MatchPlus(s, i, C) ==
    IF i = 0 THEN 0
    ELSE LET j == SkipClass(s, i, C) IN IF j > i THEN j ELSE 0

MatchLit(s, i, c) ==
    IF i > 0 /\ i <= Len(s) /\ Chr(s, i) = c THEN i + 1 ELSE 0

\* ^\d+\.\s+
MatchNumbered1(s) ==
    MatchPlus(s, MatchLit(s, MatchPlus(s, 1, DigitChars), "."), SpaceChars) > 0

\* ^\d+\.\d+\s+
MatchNumbered2(s) ==
    MatchPlus(s,
        MatchPlus(s, MatchLit(s, MatchPlus(s, 1, DigitChars), "."), DigitChars),
        SpaceChars) > 0

\* ^\d+\.\d+\.\d+\s+
MatchNumbered3(s) ==
    MatchPlus(s,
        MatchPlus(s,
            MatchLit(s,
                MatchPlus(s, MatchLit(s, MatchPlus(s, 1, DigitChars), "."),
                          DigitChars),
                "."),
            DigitChars),
        SpaceChars) > 0

\* [A-Z\s]
UpperOrSpaceChars == UpperChars \cup SpaceChars

\* ^[A-Z][A-Z\s]+$
MatchAllCaps(s) ==
    /\ Len(s) >= 2
    /\ Chr(s, 1) \in UpperChars
    /\ \A i \in 2..Len(s) : Chr(s, i) \in UpperOrSpaceChars

\* ^(Chapter|Section|Part)\s+\d+ with re.IGNORECASE
MatchChapter(s) ==
    \E w \in {"chapter", "section", "part"} :
        /\ StartsWithIgnoreCase(s, w)
        /\ MatchPlus(s, MatchPlus(s, Len(w) + 1, SpaceChars), DigitChars) > 0

MatchesHeadingPattern(text) ==
    \/ MatchNumbered1(text)
    \/ MatchNumbered2(text)
    \/ MatchNumbered3(text)
    \/ MatchAllCaps(text)
    \/ MatchChapter(text)

(***************************************************************************)
(* Configuration (__init__), in thousandths, and the literals of the code. *)
(***************************************************************************)
FontSizeWeight == 350

BoldWeight == 250

PositionWeight == 150

PatternWeight == 150

LengthWeight == 100

MinHeadingScore == 300

MaxHeadingLength == 200

MinHeadingLength == 3

\* sub-scores are kept in tenths: 1.0 is 10, pos_score = 0.7 is 7
ScoreOne == 10

PosScore == 7

\* min(size / median_size, 2.0) / 2.0
SizeCap == 2

\* flags & 2**4
BoldFlag == 16

\* sorted_sizes[:3]
TopSizes == 3

\* len(text) > 5 and len(text) < 150
TitleMinLength == 5

TitleMaxLength == 150

TitleSkipPrefixes == {"http", "www", "@", "#"}

DocumentTitle == "Document Title"

ErrorResult(stem) == [title |-> "Error processing " \o stem, outline |-> <<>>]

(***************************************************************************)
(* Generic helpers: Python's stable sort, sorted(), statistics.median.     *)
(***************************************************************************)
Min(a, b) == IF a <= b THEN a ELSE b

\* Python's order on tuples of numbers of one length
TupleLess(a, b) ==
    \E i \in 1..Len(a) : a[i] < b[i] /\ \A j \in 1..(i - 1) : a[j] = b[j]

\* list.sort(key=...) and sorted(): stable; keys[i] is the key of seq[i], a
\* tuple of numbers
StableSort(seq, keys) ==
    LET n == Len(seq)
        Before(j, i) ==
            \/ TupleLess(keys[j], keys[i])
            \/ (keys[j] = keys[i] /\ j < i)
        Rank(i) == Cardinality({j \in 1..n : Before(j, i)}) + 1
    IN  [k \in 1..n |-> seq[CHOOSE i \in 1..n : Rank(i) = k]]

SetMax(S) == CHOOSE x \in S : \A y \in S : y <= x

\* sorted(keys, reverse=True)
RECURSIVE SortedDescending(_)
SortedDescending(S) ==
    IF S = {} THEN <<>>
    ELSE <<SetMax(S)>> \o SortedDescending(S \ {SetMax(S)})

\* twice statistics.median(values): the middle value doubled, or the sum of
\* the two middle values
Median2(values) ==
    LET n == Len(values)
        sorted == StableSort(values, [i \in 1..n |-> <<values[i]>>])
    IN  IF n % 2 = 1
        THEN 2 * sorted[(n + 1) \div 2]
        ELSE sorted[n \div 2] + sorted[n \div 2 + 1]

\* round(size, 1), in tenths of a point; the sizes used are never half-way
Round1(size) == (size + 5) \div 10

(***************************************************************************)
(* _calculate_heading_score.  The score is the returned numerator over     *)
(* ScoreDen(med2) = 1000 * ScoreOne * SizeCap * med2.                      *)
(***************************************************************************)
ScoreDen(med2) == 1000 * ScoreOne * SizeCap * med2

IsBold(flags) == (flags \div BoldFlag) % 2 = 1

CalculateHeadingScore(span, med2) ==
    LET \* size_score numerator over SizeCap * med2
        size_num == Min(2 * span.size, SizeCap * med2)
        bold_score == IF IsBold(span.flags) THEN ScoreOne ELSE 0
        pattern_score == IF MatchesHeadingPattern(span.text) THEN ScoreOne ELSE 0
        length_score ==
            IF Len(span.text) > MaxHeadingLength THEN 0
            ELSE IF Len(span.text) < MinHeadingLength THEN 0
            ELSE ScoreOne
        total_score ==
            size_num * FontSizeWeight * ScoreOne
            + SizeCap * med2 * ( bold_score * BoldWeight
                               + PosScore * PositionWeight
                               + pattern_score * PatternWeight
                               + length_score * LengthWeight )
    IN  Min(total_score, ScoreDen(med2))

\* score >= self.config['min_heading_score']
MeetsMinScore(score, med2) == score >= MinHeadingScore * ScoreOne * SizeCap * med2

(***************************************************************************)
(* _extract_headings, after the page loop: lines 171-191.                  *)
(***************************************************************************)
Candidate(span, med2) ==
    [text |-> span.text, page |-> span.page, size |-> span.size,
     score |-> CalculateHeadingScore(span, med2)]

\* key=lambda x: (-x["score"], x["page"])
CandidateKey(x) == <<0 - x.score, x.page>>

HeadingCandidates(all_spans) ==
    LET med2 == Median2([i \in 1..Len(all_spans) |-> all_spans[i].size])
        scored == [i \in 1..Len(all_spans) |-> Candidate(all_spans[i], med2)]
        accepted == SelectSeq(scored, LAMBDA c : MeetsMinScore(c.score, med2))
    IN  StableSort(accepted,
                   [i \in 1..Len(accepted) |-> CandidateKey(accepted[i])])

(***************************************************************************)
(* _assign_heading_levels                                                  *)
(***************************************************************************)
\* f"H{i+1}", i counted from 0
LevelName(i) == "H" \o ToString(i + 1)

\* variant for sensitivity checks: the groups are keyed by the size as read, not rounded
GroupKeyRaw(candidate) == candidate.size

GroupKey(candidate) == Round1(candidate.size)

\* variant for sensitivity checks: every distinct size gets a level, the [:3] slice left out
RankedSizesAll(candidates) ==
    SortedDescending({GroupKey(candidates[k]) : k \in 1..Len(candidates)})

\* sorted(size_groups.keys(), reverse=True)[:3]
RankedSizes(candidates) ==
    LET sorted_sizes ==
            SortedDescending({GroupKey(candidates[k]) : k \in 1..Len(candidates)})
    IN  SubSeq(sorted_sizes, 1, Min(TopSizes, Len(sorted_sizes)))

Heading(level, candidate) ==
    [level |-> level, text |-> CleanText(candidate.text), page |-> candidate.page]

RECURSIVE LevelledFrom(_, _, _)
LevelledFrom(candidates, sizes, i) ==
    IF i >= Len(sizes) THEN <<>>
    ELSE LET group == SelectSeq(candidates,
                                LAMBDA c : GroupKey(c) = sizes[i + 1])
         IN  [k \in 1..Len(group) |-> Heading(LevelName(i), group[k])]
             \o LevelledFrom(candidates, sizes, i + 1)

\* variant for sensitivity checks: the final sort by page left out
SortByPageSkipped(headings) == headings

\* headings.sort(key=lambda x: x["page"])
SortByPage(headings) ==
    StableSort(headings, [i \in 1..Len(headings) |-> <<headings[i].page>>])

AssignHeadingLevels(candidates) ==
    IF candidates = <<>> THEN <<>>
    ELSE SortByPage(LevelledFrom(candidates, RankedSizes(candidates), 0))

(***************************************************************************)
(* _extract_title: the spans of the first page; metadata_title is          *)
(* pdf_doc.metadata["title"] ("" when absent).  page_fails: pdf_doc[0] or  *)
(* get_text raises, which the method's own except clause catches.          *)
(***************************************************************************)
IsTitleCandidate(text) ==
    /\ Len(text) > TitleMinLength
    /\ Len(text) < TitleMaxLength
    /\ \A p \in TitleSkipPrefixes : ~StartsWith(text, p)

TitleCandidates(page) ==
    SelectSeq([i \in 1..Len(page) |->
                  [text |-> Strip(page[i].text), size |-> page[i].size]],
              LAMBDA c : IsTitleCandidate(c.text))

\* max(largest_texts, key=len): the first of the longest
FirstLongest(texts) ==
    texts[CHOOSE i \in 1..Len(texts) :
            /\ \A j \in 1..Len(texts) : Len(texts[j].text) <= Len(texts[i].text)
            /\ \A j \in 1..(i - 1) : Len(texts[j].text) < Len(texts[i].text)]

\* variant for sensitivity checks: the metadata fallback left out
ExtractTitleNoMetadata(pages, metadata_title, page_fails) ==
    IF pages = <<>> \/ page_fails THEN DocumentTitle
    ELSE LET title_candidates == TitleCandidates(pages[1])
             max_size == SetMax({title_candidates[i].size :
                                    i \in 1..Len(title_candidates)})
             largest_texts ==
                 SelectSeq(title_candidates, LAMBDA c : c.size = max_size)
         IN  IF title_candidates # <<>>
             THEN CleanText(FirstLongest(largest_texts).text)
             ELSE DocumentTitle

ExtractTitle(pages, metadata_title, page_fails) ==
    IF pages = <<>> \/ page_fails THEN DocumentTitle
    ELSE LET title_candidates == TitleCandidates(pages[1])
             max_size == SetMax({title_candidates[i].size :
                                    i \in 1..Len(title_candidates)})
             largest_texts ==
                 SelectSeq(title_candidates, LAMBDA c : c.size = max_size)
         IN  IF title_candidates # <<>>
             THEN CleanText(FirstLongest(largest_texts).text)
             ELSE IF metadata_title # "" THEN metadata_title
             ELSE DocumentTitle

\* the spans one page adds to all_spans (lines 157-169)
PageSpans(page, page_num) ==
    SelectSeq([i \in 1..Len(page) |->
                  [text |-> Strip(page[i].text), size |-> page[i].size,
                   flags |-> page[i].flags, page |-> page_num + 1]],
              LAMBDA s : Len(s.text) >= MinHeadingLength)

\* Path(pdf_path).stem: the last path component without its last suffix
RECURSIVE LastIndexOf(_, _, _)
LastIndexOf(s, c, i) ==
    IF i = 0 THEN 0
    ELSE IF Chr(s, i) = c THEN i ELSE LastIndexOf(s, c, i - 1)

\* variant for sensitivity checks: Path(pdf_path).name, the suffix kept
StemKeepsSuffix(path) ==
    SubSeq(path, LastIndexOf(path, "/", Len(path)) + 1, Len(path))

Stem(path) ==
    LET name == SubSeq(path, LastIndexOf(path, "/", Len(path)) + 1, Len(path))
        dot == LastIndexOf(name, ".", Len(name))
    IN  IF dot > 1 THEN SubSeq(name, 1, dot - 1) ELSE name

(***************************************************************************)
(* _extract_headings: the page loop (lines 153-169) and what follows it    *)
(* (lines 171-194).                                                        *)
(***************************************************************************)
RECURSIVE AllSpans(_, _)
AllSpans(pages, page_num) ==
    IF page_num >= Len(pages) THEN <<>>
    ELSE PageSpans(pages[page_num + 1], page_num) \o AllSpans(pages, page_num + 1)

SpanSizes(all_spans) == [i \in 1..Len(all_spans) |-> all_spans[i].size]

(***************************************************************************)
(* Inputs.  A document is its pages, each the sequence of its spans in     *)
(* reading order (blocks, lines and spans flattened).  A span is its raw   *)
(* text, its font size in hundredths of a point and its font flags.        *)
(* Two families of documents: one rich in font sizes (two sizes that round *)
(* to the same tenth, four distinct tenths, a small plain span that is     *)
(* rejected beside large ones), one rich in texts (blank spans, blank      *)
(* pages, a text the title extraction skips).                              *)
(***************************************************************************)
MaxPages == 2

MaxSpans == 4

MaxCleanLen == 3

SizedSpans ==
    { [text |-> "Name:",     size |-> 600,  flags |-> 0],
      [text |-> "Name:*",    size |-> 800,  flags |-> 16],
      [text |-> "1. Intro ", size |-> 1196, flags |-> 0],
      [text |-> "Overview",  size |-> 1204, flags |-> 0],
      [text |-> "SUMMARY",   size |-> 1800, flags |-> 20] }

TextSpans ==
    { [text |-> "  ",        size |-> 1800, flags |-> 16],
      [text |-> "Name:",     size |-> 600,  flags |-> 0],
      [text |-> "#Overview", size |-> 1204, flags |-> 0] }

MetadataTitles == {"", "Meta"}

PdfPaths == {"in/form.pdf"}

\* the page (1-based) of each of n spans read in order from np pages; with
\* no_blank_page every page holds a span
Layouts(n, np, no_blank_page) ==
    { page_of \in [1..n -> 1..np] :
        /\ \A i \in 1..n, j \in 1..n : i < j => page_of[i] <= page_of[j]
        /\ no_blank_page => \A p \in 1..np : \E i \in 1..n : page_of[i] = p }

\* the document of np pages whose spans, in reading order, are flat, span i
\* on page page_of[i]
Document(flat, page_of, np) ==
    [p \in 1..np |->
        LET on_page == {i \in 1..Len(flat) : page_of[i] = p}
            first == IF on_page = {} THEN 1
                     ELSE CHOOSE i \in on_page : \A j \in on_page : i <= j
        IN  SubSeq(flat, first, first + Cardinality(on_page) - 1)]

\* doc is a document of at most MaxPages pages holding at most MaxSpans
\* spans of U
IsDocumentOf(doc, U, no_blank_page) ==
    \E np \in 0..MaxPages, n \in 0..MaxSpans :
        \E page_of \in Layouts(n, np, no_blank_page) :
            \E flat \in [1..n -> U] :
                doc = Document(flat, page_of, np)

CleanChars == {"a", " ", "\t", "*", "."}

RECURSIVE Strings(_)
Strings(n) ==
    IF n = 0 THEN {""}
    ELSE Strings(n - 1) \cup {s \o c : s \in Strings(n - 1), c \in CleanChars}

(***************************************************************************)
(* State                                                                   *)
(***************************************************************************)
VARIABLES
    pc,                 \* where extract_outline is
    pdf_path,           \* its argument
    pages,              \* the pages of the document behind pdf_path
    metadata_title,     \* pdf_doc.metadata["title"], once it has been read
    title,              \* the local title of extract_outline
    title_failed,       \* _extract_title went through its except clause
    caught,             \* what raised the exception extract_outline caught, "" if none
    failed_page,        \* the 1-based page whose get_text raised, 0 if none
    heading_candidates, \* the sorted candidates handed to _assign_heading_levels
    result,             \* what extract_outline returned
    clean_in,           \* a text handed to _clean_text
    clean_once,         \* _clean_text(clean_in)
    clean_twice         \* _clean_text(_clean_text(clean_in))

vars == <<pc, pdf_path, pages, metadata_title, title, title_failed,
          caught, failed_page, heading_candidates, result,
          clean_in, clean_once, clean_twice>>

outline_vars == <<pdf_path, pages, metadata_title, title, title_failed,
                  caught, failed_page, heading_candidates, result>>

clean_vars == <<clean_in, clean_once, clean_twice>>

NoResult == [title |-> "", outline |-> <<>>]

Idle ==
    /\ metadata_title = ""
    /\ title = ""
    /\ title_failed = FALSE
    /\ caught = ""
    /\ failed_page = 0
    /\ heading_candidates = <<>>
    /\ result = NoResult
    /\ clean_once = ""
    /\ clean_twice = ""

Init ==
    /\ pc = "start"
    /\ pdf_path \in PdfPaths
    /\ (IsDocumentOf(pages, SizedSpans, TRUE) \/ IsDocumentOf(pages, TextSpans, FALSE))
    /\ clean_in = ""
    /\ Idle

(***************************************************************************)
(* extract_outline                                                         *)
(***************************************************************************)
\* the except clause of extract_outline (lines 82-88): the locals are gone
Fail(what) ==
    /\ caught' = what
    /\ result' = ErrorResult(Stem(pdf_path))
    /\ title' = ""
    /\ title_failed' = FALSE
    /\ heading_candidates' = <<>>
    /\ pc' = "done"

\* fitz.open(pdf_path) succeeds (line 64)
Open ==
    /\ pc = "start"
    /\ pc' = "title"
    /\ UNCHANGED <<outline_vars, clean_vars>>

\* fitz.open(pdf_path) raises
OpenFail ==
    /\ pc = "start"
    /\ Fail("fitz.open")
    /\ UNCHANGED <<pdf_path, pages, metadata_title, failed_page, clean_vars>>

\* _extract_title reads pdf_doc.metadata only when the first page was read
\* and gave no title candidate (line 131)
ReadsMetadata(page_fails) ==
    /\ pages # <<>>
    /\ ~page_fails
    /\ TitleCandidates(pages[1]) = <<>>

\* title = self._extract_title(pdf_doc) (line 68); reading the first page
\* may raise inside it
ExtractTitleStep ==
    /\ pc = "title"
    /\ \E page_fails \in BOOLEAN, m \in MetadataTitles :
        /\ ReadsMetadata(page_fails) \/ m = ""
        /\ metadata_title' = m
        /\ title' = ExtractTitle(pages, m, page_fails)
        /\ title_failed' = (pages = <<>> \/ page_fails)
    /\ pc' = "headings"
    /\ UNCHANGED <<pdf_path, pages, caught, failed_page, heading_candidates,
                   result, clean_vars>>

\* headings = self._extract_headings(pdf_doc) (line 71) and the return of
\* extract_outline (lines 74-80)
ExtractHeadingsStep ==
    /\ pc = "headings"
    /\ LET all_spans == AllSpans(pages, 0)
       IN  IF all_spans # <<>> /\ Median2(SpanSizes(all_spans)) = 0
           THEN \* size / median_size: ZeroDivisionError
                Fail("ZeroDivisionError")
           ELSE /\ heading_candidates' =
                      IF all_spans = <<>> THEN <<>>
                      ELSE HeadingCandidates(all_spans)
                /\ result' = [title |-> title,
                              outline |-> AssignHeadingLevels(heading_candidates')]
                /\ pc' = "done"
                /\ UNCHANGED <<title, title_failed, caught>>
    /\ UNCHANGED <<pdf_path, pages, metadata_title, failed_page, clean_vars>>

\* page.get_text raises in the page loop of _extract_headings (line 155):
\* nothing catches it before extract_outline's except clause
ExtractHeadingsFail ==
    /\ pc = "headings"
    /\ \E page_num \in 0..(Len(pages) - 1) : failed_page' = page_num + 1
    /\ Fail("get_text")
    /\ UNCHANGED <<pdf_path, pages, metadata_title, clean_vars>>

Next ==
    \/ Open
    \/ OpenFail
    \/ ExtractTitleStep
    \/ ExtractHeadingsStep
    \/ ExtractHeadingsFail

Spec == Init /\ [][Next]_vars

(***************************************************************************)
(* _clean_text applied once and again to one text                          *)
(***************************************************************************)
InitClean ==
    /\ pc = "clean"
    /\ pdf_path = ""
    /\ pages = <<>>
    /\ clean_in \in Strings(MaxCleanLen)
    /\ Idle

CleanOnce ==
    /\ pc = "clean"
    /\ clean_once' = CleanText(clean_in)
    /\ pc' = "cleaned"
    /\ UNCHANGED <<outline_vars, clean_in, clean_twice>>

CleanAgain ==
    /\ pc = "cleaned"
    /\ clean_twice' = CleanText(clean_once)
    /\ pc' = "recleaned"
    /\ UNCHANGED <<outline_vars, clean_in, clean_once>>

NextClean == CleanOnce \/ CleanAgain

SpecClean == InitClean /\ [][NextClean]_vars

(***************************************************************************)
(* Properties                                                              *)
(***************************************************************************)
Outline == result.outline

Returned == pc = "done"

\* the font sizes of the candidates rounded to one decimal, in tenths
DistinctSizes(candidates) ==
    {(candidates[k].size + 5) \div 10 : k \in 1..Len(candidates)}

\* the rank, from 1, of a candidate's rounded size among the distinct rounded
\* sizes of the candidates, largest first
SizeRank(candidates, c) ==
    Cardinality({d \in DistinctSizes(candidates) : d > (c.size + 5) \div 10}) + 1

\* the texts of the outline entries of one page, in outline order
OutlineTextsOn(p) ==
    LET on_page == SelectSeq(Outline, LAMBDA h : h.page = p)
    IN  [i \in 1..Len(on_page) |-> on_page[i].text]

\* the cleaned texts of the spans read from one page, in the order read
DetectedTextsOn(p) ==
    LET read == PageSpans(pages[p], p - 1)
    IN  [i \in 1..Len(read) |-> CleanText(read[i].text)]

\* a is b with some elements left out, the order kept
RECURSIVE IsSubsequence(_, _)
IsSubsequence(a, b) ==
    IF a = <<>> THEN TRUE
    ELSE IF b = <<>> THEN FALSE
    ELSE IF Head(a) = Head(b) THEN IsSubsequence(Tail(a), Tail(b))
    ELSE IsSubsequence(a, Tail(b))

\* s without its first whitespace-delimited token
RECURSIVE SkipToken(_)
SkipToken(s) ==
    IF s = "" \/ Head(s) \in SpaceChars THEN s ELSE SkipToken(Tail(s))

\* the number of whitespace-delimited tokens of a text
RECURSIVE TokenCount(_)
TokenCount(s) ==
    LET t == LStrip(s)
    IN  IF t = "" THEN 0 ELSE 1 + TokenCount(SkipToken(t))

IsFieldLabel(text) == Len(text) < 15 /\ TokenCount(text) <= 2

\* the spans of the document
DocumentSpans ==
    UNION { {pages[p][i] : i \in 1..Len(pages[p])} : p \in 1..Len(pages) }

\* no page has a span with text left after stripping
NoExtractableText == \A s \in DocumentSpans : Strip(s.text) = ""

\* C1: the returned outline holds no two entries with the same (text, page).
NoDuplicateHeadings ==
    Returned =>
        \A i \in 1..Len(Outline), j \in 1..Len(Outline) :
            i < j => ~(/\ Outline[i].text = Outline[j].text
                       /\ Outline[i].page = Outline[j].page)

\* C2: the returned outline is non-decreasing in page, and every page is a
\* 1-based page number of the document.
PageMonotone ==
    Returned =>
        /\ \A i \in 1..Len(Outline), j \in 1..Len(Outline) :
               i < j => Outline[i].page <= Outline[j].page
        /\ \A i \in 1..Len(Outline) : Outline[i].page \in 1..Len(pages)

\* the candidates reached _assign_heading_levels with a later page first, and
\* the outline spans two pages
PageMonotoneWitness ==
    /\ Returned
    /\ \E i \in 1..Len(heading_candidates), j \in 1..Len(heading_candidates) :
           i < j /\ heading_candidates[i].page > heading_candidates[j].page
    /\ Len(Outline) >= 2
    /\ Outline[1].page < Outline[Len(Outline)].page

\* C3: the outline entries of one page are in the order their spans were read
\* from that page.
DetectionOrderWithinPage ==
    Returned =>
        \A p \in 1..Len(pages) :
            IsSubsequence(OutlineTextsOn(p), DetectedTextsOn(p))

\* the outline of the document with page p contributing nothing
OutlineWithoutPage(p) ==
    LET others == AllSpans([pages EXCEPT ![p] = <<>>], 0)
    IN  IF others = <<>> THEN <<>>
        ELSE AssignHeadingLevels(HeadingCandidates(others))

\* C4: when reading one page fails during heading extraction and the other
\* pages hold headings, the document is not replaced by the error result and
\* the outline is the outline of the other pages.
PageFailureRecovered ==
    (Returned /\ failed_page # 0 /\ OutlineWithoutPage(failed_page) # <<>>) =>
        /\ result.title # "Error processing form"
        /\ Outline = OutlineWithoutPage(failed_page)

\* C5: extract_outline always returns a result with a string title and a
\* list outline; the result is {title: "Error processing <stem>", outline: []}
\* exactly when an exception reached its except clause, and otherwise carries
\* the extracted title.
NoExceptionEscapes ==
    /\ pc \in {"start", "title", "headings", "done"}
    /\ caught # "" => Returned
    /\ Returned =>
        /\ result.title \in STRING
        /\ DOMAIN Outline = 1..Len(Outline)
        /\ caught # "" <=>
               (pdf_path = "in/form.pdf"
                /\ result = [title |-> "Error processing form", outline |-> <<>>])
        /\ caught = "" => result.title = title

\* the second page failed to read after the title had been extracted
NoExceptionEscapesWitness ==
    /\ Returned
    /\ caught = "get_text"
    /\ failed_page = 2
    /\ result.title = "Error processing form"

\* C6: a document made only of short field labels yields an empty outline.
FormYieldsEmptyOutline ==
    (Returned /\ \A s \in DocumentSpans : IsFieldLabel(s.text)) =>
        Outline = <<>>

CleanIdempotent ==
    pc = "recleaned" => clean_twice = clean_once

\* C9: every level of the returned outline is H1, H2 or H3.
LevelsValid ==
    Returned =>
        \A i \in 1..Len(Outline) : Outline[i].level \in {"H1", "H2", "H3"}

\* more than three distinct sizes among the accepted candidates
LevelsValidWitness ==
    /\ Returned
    /\ Cardinality(DistinctSizes(heading_candidates)) >= 4
    /\ Outline # <<>>

\* stands for the entry of a candidate that gets none
Dropped == [level |-> "", text |-> "", page |-> 0]

\* C10: the outline holds, for every candidate whose rounded size is among
\* the three largest distinct rounded sizes, one entry with level H<rank>,
\* and nothing else.
SizeRankLevels ==
    Returned =>
        LET ranks == [k \in 1..Len(heading_candidates) |->
                         SizeRank(heading_candidates, heading_candidates[k])]
            entries == [k \in 1..Len(heading_candidates) |->
                           IF ranks[k] > 3 THEN Dropped
                           ELSE [level |-> <<"H1", "H2", "H3">>[ranks[k]],
                                 text |-> CleanText(heading_candidates[k].text),
                                 page |-> heading_candidates[k].page]]
            kept == {k \in 1..Len(entries) : entries[k] # Dropped}
        IN  /\ Len(Outline) = Cardinality(kept)
            /\ \A k \in kept :
                   Cardinality({i \in 1..Len(Outline) : Outline[i] = entries[k]})
                   = Cardinality({j \in kept : entries[j] = entries[k]})

\* four distinct sizes: the candidates of the smallest are dropped, the
\* other three levels are all present
SizeRankLevelsWitness ==
    /\ Returned
    /\ \E k \in 1..Len(heading_candidates) :
           SizeRank(heading_candidates, heading_candidates[k]) > 3
    /\ {Outline[i].level : i \in 1..Len(Outline)} = {"H1", "H2", "H3"}

====
